---------------------------- MODULE Spec2Model ----------------------------
(***************************************************************************)
(* logsy: the process-wide logger singleton of src/src/lib.rs.             *)
(*                                                                         *)
(* The state is the static LOGSY (a Mutex around LogsyConf), the two       *)
(* globals of the log crate that the code writes (the registered logger    *)
(* and the max-level hint), the RUST_LOG environment value, the file       *)
(* system and the error stream.  Every function of lib.rs is cut into one  *)
(* action per statement that touches shared state; a statement of the form *)
(* `LOGSY.0.lock()?.field = v` takes and releases the lock within the      *)
(* statement and is one action guarded by the lock being free.  Only       *)
(* Logsy::log keeps its guard across several writes.                       *)
(***************************************************************************)
EXTENDS Integers, Sequences, FiniteSets, TLC

(***************************************************************************)
(* Bounds of the model.                                                    *)
(***************************************************************************)
NThreads == 2
MaxCalls == 3
MaxEmits == 2

(***************************************************************************)
(* log::LevelFilter and log::Level, in the numeric order of the log crate  *)
(* (Error is the smallest Level, Trace the largest; Off is below Error).   *)
(* Option<Level>::None is NoLevel.                                         *)
(***************************************************************************)
Off == 0
Error == 1
Warn == 2
Info == 3
Debug == 4
Trace == 5
NoLevel == 0

Levels == Error..Trace
Filters == Off..Trace

(* The filters and record levels the callers of the full model draw from.  *)
CallFilters == {Off, Info, Debug}
CallLevels == {Info, Debug}

Threads == 1..NThreads
NoThread == 0

(***************************************************************************)
(* Paths.  "a.log" and "b.log" lie in a directory that exists, "d/c.log"   *)
(* in a directory "d" that does not exist when the process starts.         *)
(***************************************************************************)
Paths == {"a.log", "b.log", "d/c.log"}
Parent(p) == IF p = "d/c.log" THEN "d" ELSE "."

(* The line a file held before the process started.                        *)
OldBody == [rec |-> <<0, 0>>, lvl |-> Info, nl |-> FALSE]
OldNl == [rec |-> <<0, 0>>, lvl |-> Info, nl |-> TRUE]
OldLine == <<OldBody, OldNl>>

(***************************************************************************)
(* writeln!(file, "[{ts}{:5} {mod_p}] {msg}") hands the file one write per *)
(* piece of the format string; the last piece is the "\n".  A line is      *)
(* modelled as two cells of equal size: the body (level name, origin and   *)
(* message of the record) and the newline that completes it.               *)
(***************************************************************************)
BodyCell(r, l) == [rec |-> r, lvl |-> l, nl |-> FALSE]
NlCell(r, l) == [rec |-> r, lvl |-> l, nl |-> TRUE]

NoHandle == [path |-> "none", append |-> FALSE, off |-> 0, stale |-> {}]

NoCall == [op |-> "none", path |-> "none", append |-> FALSE, filter |-> Off,
           lvl |-> Error, rec |-> <<0, 0>>]

VARIABLES
  installed, to_stderr, to_file, level,   \* LogsyConf
  lockHolder, poisoned,                   \* the Mutex of LOGSY
  logger, maxLevel,                       \* log crate: set_logger, set_max_level
  rustLog,                                \* std::env::var("RUST_LOG")
  files, dirs, diskOk,                    \* file system
  console, stderrOk,                      \* the error stream
  pc, call, handle, logLevel, ret,        \* per thread: position, call, locals, result
  seq, calls,                             \* records emitted per thread, calls started
  setLoggerCalls,                         \* how often log::set_logger was called
  frozen,                                 \* per path: content when a handle on it was replaced
  lastSet,                                \* filter last stored by try_set_level ({} if none)
  sawSet                                  \* per thread: lastSet when it last ran Log::enabled

vars == <<installed, to_stderr, to_file, level, lockHolder, poisoned, logger,
          maxLevel, rustLog, files, dirs, diskOk, console, stderrOk, pc, call,
          handle, logLevel, ret, seq, calls, setLoggerCalls, frozen, lastSet, sawSet>>

confVars == <<installed, to_stderr, to_file, level>>
logVars == <<logger, maxLevel>>
fsVars == <<files, dirs>>
envVars == <<rustLog, diskOk, stderrOk>>

NoSnap == <<[rec |-> <<0, 0>>, lvl |-> Off, nl |-> FALSE]>>

(***************************************************************************)
(* static LOGSY (lib.rs 81-87) in a fresh process.  The host may have      *)
(* registered another logger before; RUST_LOG is unset, a level name or    *)
(* not a level name; "a.log" may hold a line of an earlier run.            *)
(***************************************************************************)
EnvValues == {<<"unset", Off>>, <<"invalid", Off>>, <<"level", Off>>, <<"level", Debug>>}

InitConf ==
  /\ installed = FALSE
  /\ to_stderr = FALSE
  /\ to_file = NoHandle
  /\ level = NoLevel
  /\ lockHolder = NoThread
  /\ poisoned = FALSE

InitThreads ==
  /\ pc = [t \in Threads |-> "idle"]
  /\ call = [t \in Threads |-> NoCall]
  /\ handle = [t \in Threads |-> NoHandle]
  /\ logLevel = [t \in Threads |-> Off]
  /\ ret = [t \in Threads |-> "none"]
  /\ seq = [t \in Threads |-> 0]
  /\ calls = 0
  /\ sawSet = [t \in Threads |-> {}]

InitGhost ==
  /\ setLoggerCalls = 0
  /\ frozen = [p \in Paths |-> NoSnap]
  /\ lastSet = {}

Init ==
  /\ InitConf
  /\ InitThreads
  /\ InitGhost
  /\ logger \in {"nop", "other"}
  /\ maxLevel = Off
  /\ rustLog \in EnvValues
  /\ files \in {[p \in Paths |-> IF p = "a.log" THEN c ELSE <<>>] : c \in {<<>>, OldLine}}
  /\ dirs = {"."}
  /\ diskOk = TRUE
  /\ console = <<>>
  /\ stderrOk = TRUE


ghostVars == <<setLoggerCalls, frozen, lastSet, sawSet>>

(* LockFree without mutual exclusion: lock() never waits.                  *)
LockFreeNoExclusion == TRUE

(***************************************************************************)
(* Mutex::lock blocks while another thread holds the guard.                *)
(***************************************************************************)
LockFree == lockHolder = NoThread

(* LevelFilter::to_level (lib.rs 173): Off is None, any other filter its Level. *)
ToLevel(f) == IF f = Off THEN NoLevel ELSE f

(* LevelEnabled with the comparison turned round.                          *)
LevelEnabledReversed(lv, r) == lv # NoLevel /\ r >= lv

(* mg.level.is_some_and(|level| metadata.level() <= level)  (lib.rs 30)    *)
LevelEnabled(lv, r) == lv # NoLevel /\ r <= lv

(* Enabled that lets every level through.                                  *)
EnabledAlways(r) == ~poisoned

(* Logsy::enabled (lib.rs 27-31): lock().is_ok_and(..) is false on a       *)
(* poisoned mutex.                                                         *)
Enabled(r) == ~poisoned /\ LevelEnabled(level, r)

(* Where try_to_console and try_to_file go on after ensure_installed()?.   *)
AfterInstall(op) == IF op = "to_console" THEN "con_set" ELSE "file_open"

(* Path::is_dir and Path::exists of the parent directory (lib.rs 143-144). *)
IsDir(d) == d \in dirs
Exists(d) == d \in dirs

(* OpenOptions::new().create(true).write(true).append(append): truncate is *)
(* left at its default.                                                    *)
Truncate == FALSE
OpenContent(c) == IF Truncate THEN <<>> ELSE c

(* One write(2) through a handle: at the end of the file with O_APPEND,    *)
(* else at the handle's offset, replacing what is there.                   *)
WriteAt(c, h, cell) ==
  IF h.append \/ h.off >= Len(c)
    THEN Append(c, cell)
    ELSE [c EXCEPT ![h.off + 1] = cell]
(* Advance that leaves the offset where it was.                            *)
AdvanceStuck(h) == h

Advance(h) == IF h.append THEN h ELSE [h EXCEPT !.off = h.off + 1]

Range(s) == {s[i] : i \in 1..Len(s)}

(***************************************************************************)
(* A thread starts a call of the public API, or the registry hands a       *)
(* record to the registered LOGSY.  ret[t] keeps how the last call of the  *)
(* slot t ended; after a panic the slot stands for the thread that calls   *)
(* next.                                                                   *)
(***************************************************************************)
StartToConsole(t) ==
  /\ pc[t] = "idle"
  /\ pc' = [pc EXCEPT ![t] = "ei_read"]
  /\ call' = [call EXCEPT ![t] = [NoCall EXCEPT !.op = "to_console"]]
  /\ ret' = [ret EXCEPT ![t] = "running"]
  /\ calls' = calls + 1
  /\ UNCHANGED <<confVars, lockHolder, poisoned, logVars, fsVars, envVars, console,
                 handle, logLevel, seq, ghostVars>>

StartToFile(t, p, a) ==
  /\ pc[t] = "idle"
  /\ pc' = [pc EXCEPT ![t] = "ei_read"]
  /\ call' = [call EXCEPT ![t] = [NoCall EXCEPT !.op = "to_file", !.path = p, !.append = a]]
  /\ ret' = [ret EXCEPT ![t] = "running"]
  /\ calls' = calls + 1
  /\ UNCHANGED <<confVars, lockHolder, poisoned, logVars, fsVars, envVars, console,
                 handle, logLevel, seq, ghostVars>>

StartSetLevel(t, f) ==
  /\ pc[t] = "idle"
  /\ pc' = [pc EXCEPT ![t] = "lvl_hint"]
  /\ call' = [call EXCEPT ![t] = [NoCall EXCEPT !.op = "set_level", !.filter = f]]
  /\ logLevel' = [logLevel EXCEPT ![t] = f]
  /\ ret' = [ret EXCEPT ![t] = "running"]
  /\ calls' = calls + 1
  /\ UNCHANGED <<confVars, lockHolder, poisoned, logVars, fsVars, envVars, console,
                 handle, seq, ghostVars>>

StartLog(t, l) ==
  /\ pc[t] = "idle"
  /\ logger = "logsy"
  /\ seq[t] < MaxEmits
  /\ pc' = [pc EXCEPT ![t] = "log_enabled"]
  /\ call' = [call EXCEPT ![t] = [NoCall EXCEPT !.op = "log", !.lvl = l,
                                                  !.rec = <<t, seq[t] + 1>>]]
  /\ seq' = [seq EXCEPT ![t] = seq[t] + 1]
  /\ ret' = [ret EXCEPT ![t] = "running"]
  /\ calls' = calls + 1
  /\ UNCHANGED <<confVars, lockHolder, poisoned, logVars, fsVars, envVars, console,
                 handle, logLevel, ghostVars>>

(***************************************************************************)
(* ensure_installed (lib.rs 94-111)                                        *)
(***************************************************************************)
(* let installed = LOGSY.0.lock()?.installed; if !installed { *)
EnsureRead(t) ==
  /\ pc[t] = "ei_read"
  /\ LockFree
  /\ IF poisoned
       THEN /\ pc' = [pc EXCEPT ![t] = "idle"]
            /\ ret' = [ret EXCEPT ![t] = "ErrPoison"]
       ELSE /\ pc' = [pc EXCEPT ![t] = IF installed THEN AfterInstall(call[t].op)
                                                    ELSE "ei_set"]
            /\ ret' = ret
  /\ UNCHANGED <<confVars, lockHolder, poisoned, logVars, fsVars, envVars, console,
                 call, handle, logLevel, seq, calls, ghostVars>>

(* LOGSY.0.lock()?.installed = true; *)
EnsureSet(t) ==
  /\ pc[t] = "ei_set"
  /\ LockFree
  /\ IF poisoned
       THEN /\ pc' = [pc EXCEPT ![t] = "idle"]
            /\ ret' = [ret EXCEPT ![t] = "ErrPoison"]
            /\ installed' = installed
       ELSE /\ pc' = [pc EXCEPT ![t] = "ei_reg"]
            /\ ret' = ret
            /\ installed' = TRUE
  /\ UNCHANGED <<to_stderr, to_file, level, lockHolder, poisoned, logVars, fsVars,
                 envVars, console, call, handle, logLevel, seq, calls, ghostVars>>

(* log::set_logger(&LOGSY).map_err(|e| e.to_string())?; it fails when any  *)
(* logger has been registered before.                                      *)
EnsureRegister(t) ==
  /\ pc[t] = "ei_reg"
  /\ setLoggerCalls' = setLoggerCalls + 1
  /\ IF logger = "nop"
       THEN /\ logger' = "logsy"
            /\ pc' = [pc EXCEPT ![t] = "ei_env"]
            /\ ret' = ret
       ELSE /\ logger' = logger
            /\ pc' = [pc EXCEPT ![t] = "idle"]
            /\ ret' = [ret EXCEPT ![t] = "ErrSetLogger"]
  /\ UNCHANGED <<confVars, lockHolder, poisoned, maxLevel, fsVars, envVars, console,
                 call, handle, logLevel, seq, calls, frozen, lastSet, sawSet>>

(* let mut log_level = LevelFilter::Info; if let Ok(v) = env::var("RUST_LOG") *)
(* { log_level = LevelFilter::from_str(&v).unwrap_or_else(|e| panic!(..)) }   *)
(* try_set_level(log_level)?  is entered at "lvl_hint".                       *)
EnsureEnv(t) ==
  /\ pc[t] = "ei_env"
  /\ IF rustLog[1] = "invalid"
       THEN /\ pc' = [pc EXCEPT ![t] = "idle"]
            /\ ret' = [ret EXCEPT ![t] = "Panic"]
            /\ logLevel' = logLevel
       ELSE /\ pc' = [pc EXCEPT ![t] = "lvl_hint"]
            /\ ret' = ret
            /\ logLevel' = [logLevel EXCEPT ![t] = IF rustLog[1] = "unset" THEN Info
                                                                         ELSE rustLog[2]]
  /\ UNCHANGED <<confVars, lockHolder, poisoned, logVars, fsVars, envVars, console,
                 call, handle, seq, calls, ghostVars>>

(***************************************************************************)
(* try_set_level (lib.rs 171-175), called by the user or by                *)
(* ensure_installed.                                                       *)
(***************************************************************************)
(* log::set_max_level(filter); *)
LvlHint(t) ==
  /\ pc[t] = "lvl_hint"
  /\ maxLevel' = logLevel[t]
  /\ pc' = [pc EXCEPT ![t] = "lvl_store"]
  /\ UNCHANGED <<confVars, lockHolder, poisoned, logger, fsVars, envVars, console,
                 call, handle, logLevel, ret, seq, calls, ghostVars>>

(* LOGSY.0.lock()?.level = filter.to_level(); Ok(()) *)
LvlStore(t) ==
  /\ pc[t] = "lvl_store"
  /\ LockFree
  /\ IF poisoned
       THEN /\ pc' = [pc EXCEPT ![t] = "idle"]
            /\ ret' = [ret EXCEPT ![t] = "ErrPoison"]
            /\ UNCHANGED <<level, lastSet>>
       ELSE /\ level' = ToLevel(logLevel[t])
            /\ lastSet' = {logLevel[t]}
            /\ IF call[t].op = "set_level"
                 THEN /\ pc' = [pc EXCEPT ![t] = "idle"]
                      /\ ret' = [ret EXCEPT ![t] = "Ok"]
                 ELSE /\ pc' = [pc EXCEPT ![t] = AfterInstall(call[t].op)]
                      /\ ret' = ret
  /\ UNCHANGED <<installed, to_stderr, to_file, lockHolder, poisoned, logVars, fsVars,
                 envVars, console, call, handle, logLevel, seq, calls, setLoggerCalls,
                 frozen, sawSet>>

(* ConsoleSet that flips the flag instead of setting it.                    *)
ConsoleSetToggles(t) ==
  /\ pc[t] = "con_set"
  /\ LockFree
  /\ pc' = [pc EXCEPT ![t] = "idle"]
  /\ IF poisoned
       THEN /\ ret' = [ret EXCEPT ![t] = "ErrPoison"]
            /\ to_stderr' = to_stderr
       ELSE /\ ret' = [ret EXCEPT ![t] = "Ok"]
            /\ to_stderr' = ~to_stderr
  /\ UNCHANGED <<installed, to_file, level, lockHolder, poisoned, logVars, fsVars,
                 envVars, console, call, handle, logLevel, seq, calls, ghostVars>>

(***************************************************************************)
(* try_to_console (lib.rs 117-121): LOGSY.0.lock()?.to_stderr = true;      *)
(***************************************************************************)
ConsoleSet(t) ==
  /\ pc[t] = "con_set"
  /\ LockFree
  /\ pc' = [pc EXCEPT ![t] = "idle"]
  /\ IF poisoned
       THEN /\ ret' = [ret EXCEPT ![t] = "ErrPoison"]
            /\ to_stderr' = to_stderr
       ELSE /\ ret' = [ret EXCEPT ![t] = "Ok"]
            /\ to_stderr' = TRUE
  /\ UNCHANGED <<installed, to_file, level, lockHolder, poisoned, logVars, fsVars,
                 envVars, console, call, handle, logLevel, seq, calls, ghostVars>>

(***************************************************************************)
(* try_to_file (lib.rs 139-155)                                            *)
(***************************************************************************)
(* FileOpen that drops the handle installed before when open fails.       *)
FileOpenClearsSink(t) ==
  /\ pc[t] = "file_open"
  /\ LET p == call[t].path
         d == Parent(p)
         made == IF IsDir(d) /\ ~Exists(d) THEN dirs \cup {d} ELSE dirs
     IN /\ dirs' = made
        /\ IF d \in made
             THEN /\ files' = [files EXCEPT ![p] = OpenContent(files[p])]
                  /\ handle' = [handle EXCEPT ![t] =
                                  [path |-> p, append |-> call[t].append, off |-> 0,
                                   stale |-> Range(files[p])]]
                  /\ pc' = [pc EXCEPT ![t] = "file_set"]
                  /\ ret' = ret
                  /\ to_file' = to_file
             ELSE /\ files' = files
                  /\ handle' = handle
                  /\ pc' = [pc EXCEPT ![t] = "idle"]
                  /\ ret' = [ret EXCEPT ![t] = "ErrOpen"]
                  /\ to_file' = NoHandle
  /\ UNCHANGED <<installed, to_stderr, level, lockHolder, poisoned, logVars, envVars,
                 console, call, logLevel, seq, calls, ghostVars>>

(* if let Some(dirname) = parent && dirname.is_dir() && !dirname.exists()  *)
(* { create_dir_all(dirname)? }  let file = OpenOptions ... .open(path)?;  *)
(* open fails when the parent directory does not exist.                    *)
FileOpen(t) ==
  /\ pc[t] = "file_open"
  /\ LET p == call[t].path
         d == Parent(p)
         made == IF IsDir(d) /\ ~Exists(d) THEN dirs \cup {d} ELSE dirs
     IN /\ dirs' = made
        /\ IF d \in made
             THEN /\ files' = [files EXCEPT ![p] = OpenContent(files[p])]
                  /\ handle' = [handle EXCEPT ![t] =
                                  [path |-> p, append |-> call[t].append, off |-> 0,
                                   stale |-> Range(files[p])]]
                  /\ pc' = [pc EXCEPT ![t] = "file_set"]
                  /\ ret' = ret
             ELSE /\ files' = files
                  /\ handle' = handle
                  /\ pc' = [pc EXCEPT ![t] = "idle"]
                  /\ ret' = [ret EXCEPT ![t] = "ErrOpen"]
  /\ UNCHANGED <<confVars, lockHolder, poisoned, logVars, envVars, console, call,
                 logLevel, seq, calls, ghostVars>>

(* The content a path is frozen at when the handle on it is replaced by a  *)
(* handle on another path.                                                 *)
Freeze(old, new) ==
  [p \in Paths |-> IF p = new.path THEN NoSnap
                   ELSE IF p = old.path THEN files[p]
                   ELSE frozen[p]]

(* FileSet that keeps a handle already installed instead of replacing it.  *)
FileSetKeepsOld(t) ==
  /\ pc[t] = "file_set"
  /\ LockFree
  /\ pc' = [pc EXCEPT ![t] = "idle"]
  /\ handle' = [handle EXCEPT ![t] = NoHandle]
  /\ IF poisoned
       THEN /\ ret' = [ret EXCEPT ![t] = "ErrPoison"]
            /\ UNCHANGED <<to_file, frozen>>
       ELSE /\ ret' = [ret EXCEPT ![t] = "Ok"]
            /\ to_file' = IF to_file = NoHandle THEN handle[t] ELSE to_file
            /\ frozen' = Freeze(to_file, handle[t])
  /\ UNCHANGED <<installed, to_stderr, level, lockHolder, poisoned, logVars, fsVars,
                 envVars, console, call, logLevel, seq, calls, setLoggerCalls, lastSet,
                 sawSet>>

(* LOGSY.0.lock()?.to_file = Some(file); Ok(()) *)
FileSet(t) ==
  /\ pc[t] = "file_set"
  /\ LockFree
  /\ pc' = [pc EXCEPT ![t] = "idle"]
  /\ handle' = [handle EXCEPT ![t] = NoHandle]
  /\ IF poisoned
       THEN /\ ret' = [ret EXCEPT ![t] = "ErrPoison"]
            /\ UNCHANGED <<to_file, frozen>>
       ELSE /\ ret' = [ret EXCEPT ![t] = "Ok"]
            /\ to_file' = handle[t]
            /\ frozen' = Freeze(to_file, handle[t])
  /\ UNCHANGED <<installed, to_stderr, level, lockHolder, poisoned, logVars, fsVars,
                 envVars, console, call, logLevel, seq, calls, setLoggerCalls, lastSet,
                 sawSet>>


(***************************************************************************)
(* Logsy::log (lib.rs 33-77)                                               *)
(***************************************************************************)
(* if !self.enabled(record.metadata()) { return; } *)
LogEnabled(t) ==
  /\ pc[t] = "log_enabled"
  /\ LockFree
  /\ sawSet' = [sawSet EXCEPT ![t] = lastSet]
  /\ IF Enabled(call[t].lvl)
       THEN /\ pc' = [pc EXCEPT ![t] = "log_lock"]
            /\ ret' = ret
       ELSE /\ pc' = [pc EXCEPT ![t] = "idle"]
            /\ ret' = [ret EXCEPT ![t] = IF poisoned THEN "SkippedLock" ELSE "SkippedLevel"]
  /\ UNCHANGED <<confVars, lockHolder, poisoned, logVars, fsVars, envVars, console,
                 call, handle, logLevel, seq, calls, setLoggerCalls, frozen, lastSet>>

(* Log::enabled called on its own (lib.rs 27-31), as log_enabled! does.    *)
EnabledQuery(t, r) ==
  /\ pc[t] = "idle"
  /\ LockFree
  /\ call' = [call EXCEPT ![t] = [NoCall EXCEPT !.op = "enabled", !.lvl = r]]
  /\ ret' = [ret EXCEPT ![t] = IF Enabled(r) THEN "True" ELSE "False"]
  /\ sawSet' = [sawSet EXCEPT ![t] = lastSet]
  /\ calls' = calls + 1
  /\ UNCHANGED <<confVars, lockHolder, poisoned, logVars, fsVars, envVars, console,
                 pc, handle, logLevel, seq, setLoggerCalls, frozen, lastSet>>

ConsoleLine(c, kind) == [rec |-> c.rec, lvl |-> c.lvl, kind |-> kind]

(* let Ok(mut conf) = self.0.lock() else { eprintln!("ERROR: unable to     *)
(* acquire ..."); return; };  eprintln! panics when the write to the error *)
(* stream fails.                                                           *)
LogLock(t) ==
  /\ pc[t] = "log_lock"
  /\ LockFree
  /\ IF poisoned
       THEN /\ pc' = [pc EXCEPT ![t] = "idle"]
            /\ lockHolder' = lockHolder
            /\ IF stderrOk
                 THEN /\ console' = Append(console, ConsoleLine(call[t], "report"))
                      /\ ret' = [ret EXCEPT ![t] = "Reported"]
                 ELSE /\ console' = console
                      /\ ret' = [ret EXCEPT ![t] = "Panic"]
       ELSE /\ pc' = [pc EXCEPT ![t] = "log_console"]
            /\ lockHolder' = t
            /\ console' = console
            /\ ret' = ret
  /\ UNCHANGED <<confVars, poisoned, logVars, fsVars, envVars, call, handle, logLevel,
                 seq, calls, ghostVars>>

(* if conf.to_stderr { eprintln!(..) }: the panic of a failed eprintln!    *)
(* unwinds through the guard, which poisons the mutex and releases it.     *)
(* A thread at "log_console", "log_body" or "log_nl" owns the guard conf.  *)
LogConsole(t) ==
  /\ pc[t] = "log_console"
  /\ IF to_stderr /\ ~stderrOk
       THEN /\ poisoned' = TRUE
            /\ lockHolder' = NoThread
            /\ pc' = [pc EXCEPT ![t] = "idle"]
            /\ ret' = [ret EXCEPT ![t] = "Panic"]
            /\ console' = console
       ELSE /\ poisoned' = poisoned
            /\ lockHolder' = lockHolder
            /\ pc' = [pc EXCEPT ![t] = "log_body"]
            /\ ret' = ret
            /\ console' = IF to_stderr THEN Append(console, ConsoleLine(call[t], "line"))
                                       ELSE console
  /\ UNCHANGED <<confVars, logVars, fsVars, envVars, call, handle, logLevel, seq, calls,
                 ghostVars>>

(* if let Some(file) = &mut conf.to_file { let _ = writeln!(file, ..) }:   *)
(* the pieces up to the message.  A failed write ends writeln! with an     *)
(* error that `let _ =` drops; the guard is released at the end of log.    *)
LogFileBody(t) ==
  /\ pc[t] = "log_body"
  /\ IF to_file # NoHandle /\ diskOk
       THEN /\ files' = [files EXCEPT ![to_file.path] =
                           WriteAt(files[to_file.path], to_file,
                                   BodyCell(call[t].rec, call[t].lvl))]
            /\ to_file' = Advance(to_file)
            /\ pc' = [pc EXCEPT ![t] = "log_nl"]
            /\ lockHolder' = lockHolder
            /\ ret' = ret
       ELSE /\ UNCHANGED <<files, to_file>>
            /\ pc' = [pc EXCEPT ![t] = "idle"]
            /\ lockHolder' = NoThread
            /\ ret' = [ret EXCEPT ![t] = "Logged"]
  /\ UNCHANGED <<installed, to_stderr, level, poisoned, logVars, dirs, envVars, console,
                 call, handle, logLevel, seq, calls, ghostVars>>

(* LogFileNl that returns without dropping the guard conf.                *)
LogFileNlKeepsGuard(t) ==
  /\ pc[t] = "log_nl"
  /\ IF diskOk
       THEN /\ files' = [files EXCEPT ![to_file.path] =
                           WriteAt(files[to_file.path], to_file,
                                   NlCell(call[t].rec, call[t].lvl))]
            /\ to_file' = Advance(to_file)
       ELSE UNCHANGED <<files, to_file>>
  /\ pc' = [pc EXCEPT ![t] = "idle"]
  /\ lockHolder' = lockHolder
  /\ ret' = [ret EXCEPT ![t] = "Logged"]
  /\ UNCHANGED <<installed, to_stderr, level, poisoned, logVars, dirs, envVars, console,
                 call, handle, logLevel, seq, calls, ghostVars>>

(* the last piece of writeln!, the "\n"; then log returns and drops conf.  *)
LogFileNl(t) ==
  /\ pc[t] = "log_nl"
  /\ IF diskOk
       THEN /\ files' = [files EXCEPT ![to_file.path] =
                           WriteAt(files[to_file.path], to_file,
                                   NlCell(call[t].rec, call[t].lvl))]
            /\ to_file' = Advance(to_file)
       ELSE UNCHANGED <<files, to_file>>
  /\ pc' = [pc EXCEPT ![t] = "idle"]
  /\ lockHolder' = NoThread
  /\ ret' = [ret EXCEPT ![t] = "Logged"]
  /\ UNCHANGED <<installed, to_stderr, level, poisoned, logVars, dirs, envVars, console,
                 call, handle, logLevel, seq, calls, ghostVars>>

(***************************************************************************)
(* The environment: the reader of the error stream goes away (broken       *)
(* pipe), the disk fills up.  The program observes either only in a write, *)
(* so the model lets it happen when a thread is about to write.            *)
(***************************************************************************)
StderrBreaks ==
  /\ stderrOk
  /\ \E t \in Threads : pc[t] \in {"log_lock", "log_console"}
  /\ stderrOk' = FALSE
  /\ UNCHANGED <<confVars, lockHolder, poisoned, logVars, fsVars, rustLog, diskOk,
                 console, pc, call, handle, logLevel, ret, seq, calls, ghostVars>>

DiskFills ==
  /\ diskOk
  /\ \E t \in Threads : pc[t] \in {"log_body", "log_nl"}
  /\ diskOk' = FALSE
  /\ UNCHANGED <<confVars, lockHolder, poisoned, logVars, fsVars, rustLog, stderrOk,
                 console, pc, call, handle, logLevel, ret, seq, calls, ghostVars>>

(***************************************************************************)
(* The full model: any thread calls any function at any time.              *)
(***************************************************************************)
Step(t) ==
  \/ EnsureRead(t)
  \/ EnsureSet(t)
  \/ EnsureRegister(t)
  \/ EnsureEnv(t)
  \/ LvlHint(t)
  \/ LvlStore(t)
  \/ ConsoleSet(t)
  \/ FileOpen(t)
  \/ FileSet(t)
  \/ LogEnabled(t)
  \/ LogLock(t)
  \/ LogConsole(t)
  \/ LogFileBody(t)
  \/ LogFileNl(t)

Start(t) ==
  /\ calls < MaxCalls
  /\ \/ StartToConsole(t)
     \/ \E p \in Paths, a \in BOOLEAN : StartToFile(t, p, a)
     \/ \E f \in CallFilters : StartSetLevel(t, f)
     \/ \E l \in CallLevels : StartLog(t, l)

Next ==
  \/ \E t \in Threads : Start(t)
  \/ \E t \in Threads : Step(t)
  \/ StderrBreaks
  \/ DiskFills

Spec == Init /\ [][Next]_vars


(***************************************************************************)
(* SpecLevel: the severity filter on its own.  From the fresh process,     *)
(* threads call try_set_level with any filter and Log::enabled with any    *)
(* level.                                                                  *)
(***************************************************************************)
InitFresh ==
  /\ InitConf
  /\ InitThreads
  /\ InitGhost
  /\ logger = "nop"
  /\ maxLevel = Off
  /\ rustLog = <<"unset", Off>>
  /\ files = [p \in Paths |-> <<>>]
  /\ dirs = {"."}
  /\ diskOk = TRUE
  /\ console = <<>>
  /\ stderrOk = TRUE

NextLevel ==
  \E t \in Threads :
    \/ calls < MaxCalls /\ \E f \in Filters : StartSetLevel(t, f)
    \/ calls < MaxCalls /\ \E r \in Levels : EnabledQuery(t, r)
    \/ LvlHint(t)
    \/ LvlStore(t)

SpecLevel == InitFresh /\ [][NextLevel]_vars

(***************************************************************************)
(* The state after try_to_file("a.log", append) has returned Ok in a       *)
(* process without RUST_LOG and without another logger: installed, level   *)
(* Info, a file sink on "a.log", which is empty or holds an older line.    *)
(***************************************************************************)
InitFileSink ==
  /\ installed = TRUE
  /\ level = Info
  /\ lockHolder = NoThread
  /\ poisoned = FALSE
  /\ logger = "logsy"
  /\ maxLevel = Info
  /\ rustLog = <<"unset", Off>>
  /\ files \in {[p \in Paths |-> IF p = "a.log" THEN c ELSE <<>>] : c \in {<<>>, OldLine}}
  /\ to_file \in {[path |-> "a.log", append |-> a, off |-> 0, stale |-> Range(files["a.log"])] :
                    a \in BOOLEAN}
  /\ dirs = {"."}
  /\ diskOk = TRUE
  /\ console = <<>>
  /\ stderrOk = TRUE
  /\ InitThreads
  /\ setLoggerCalls = 1
  /\ frozen = [p \in Paths |-> NoSnap]
  /\ lastSet = {Info}

LogStep(t) ==
  \/ LogEnabled(t)
  \/ LogLock(t)
  \/ LogConsole(t)
  \/ LogFileBody(t)
  \/ LogFileNl(t)

(***************************************************************************)
(* SpecEmit: with the file sink as the only sink and no reconfiguration,   *)
(* every thread emits up to MaxEmits records that the level enables.       *)
(***************************************************************************)
EmitLevels == {Info}

NextEmit ==
  \/ \E t \in Threads : \E l \in EmitLevels : StartLog(t, l)
  \/ \E t \in Threads : LogStep(t)
  \/ DiskFills

InitEmit == InitFileSink /\ to_stderr = FALSE

SpecEmit == InitEmit /\ [][NextEmit]_vars

(***************************************************************************)
(* SpecSink: with the file sink configured, threads call try_set_level and *)
(* emit records.                                                           *)
(***************************************************************************)
NextSink ==
  \/ \E t \in Threads : calls < MaxCalls /\ \E f \in CallFilters : StartSetLevel(t, f)
  \/ \E t \in Threads : calls < MaxCalls /\ \E l \in CallLevels : StartLog(t, l)
  \/ \E t \in Threads : LvlHint(t) \/ LvlStore(t)
  \/ \E t \in Threads : LogStep(t)
  \/ DiskFills

SpecSink == InitEmit /\ [][NextSink]_vars

(***************************************************************************)
(* SpecSwitch: with a file sink on "a.log", threads call try_to_file and   *)
(* emit records.  ensure_installed finds installed set and returns.        *)
(***************************************************************************)
SwitchPaths == {"a.log", "b.log"}

NextSwitch ==
  \/ \E t \in Threads : calls < MaxCalls /\ \E p \in SwitchPaths, a \in BOOLEAN : StartToFile(t, p, a)
  \/ \E t \in Threads : calls < MaxCalls /\ \E l \in EmitLevels : StartLog(t, l)
  \/ \E t \in Threads : EnsureRead(t) \/ FileOpen(t) \/ FileSet(t)
  \/ \E t \in Threads : LogStep(t)
  \/ DiskFills

InitSink == InitFileSink /\ to_stderr \in BOOLEAN

SpecSwitch == InitSink /\ [][NextSwitch]_vars

(***************************************************************************)
(* SpecBoth: console and file sink both on, the file empty, and no         *)
(* reconfiguration; every thread emits up to MaxEmits enabled records; the *)
(* disk may fill up and the error stream may break.                        *)
(***************************************************************************)
NextBoth ==
  \/ \E t \in Threads : \E l \in EmitLevels : StartLog(t, l)
  \/ \E t \in Threads : LogStep(t)
  \/ DiskFills
  \/ StderrBreaks

InitBoth == InitFileSink /\ to_stderr = TRUE /\ files["a.log"] = <<>>

SpecBoth == InitBoth /\ [][NextBoth]_vars

(***************************************************************************)
(* SpecApi: from the fresh process every thread calls any of the four      *)
(* operations, try_to_console, try_to_file, try_set_level and log, and the *)
(* error stream may break.  try_to_file appends to a path that can be      *)
(* opened or to one whose directory is missing.                            *)
(***************************************************************************)
ApiPaths == {"a.log", "d/c.log"}

StartApi(t, paths) ==
  /\ calls < MaxCalls
  /\ \/ StartToConsole(t)
     \/ \E p \in paths : StartToFile(t, p, TRUE)
     \/ StartSetLevel(t, Debug)
     \/ StartLog(t, Info)

NextApi ==
  \/ \E t \in Threads : StartApi(t, ApiPaths)
  \/ \E t \in Threads : Step(t)
  \/ StderrBreaks

SpecApi == InitFresh /\ [][NextApi]_vars

(***************************************************************************)
(* SpecFair: the four operations again, every try_to_file on "a.log", and  *)
(* no thread stops in the middle of a call: a step of a thread that stays  *)
(* possible is taken.  Nothing obliges a thread to start a call.           *)
(***************************************************************************)
NextFair ==
  \/ \E t \in Threads : StartApi(t, {"a.log"})
  \/ \E t \in Threads : Step(t)
  \/ StderrBreaks

Fairness == \A t \in Threads : WF_vars(Step(t))

SpecFair == InitFresh /\ [][NextFair]_vars /\ Fairness


(***************************************************************************)
(*                              The claims                                 *)
(***************************************************************************)
(* How severe a level is: Error is the most severe, Trace the least.       *)
Severity(l) == (Trace + 1) - l

(* Whether a minimum level is set in `set` (the filter last stored, if     *)
(* any) and a record of level r is at least as severe as it.               *)
SevereEnough(set, r) == \E s \in set : s # Off /\ Severity(r) >= Severity(s)

HasCell(c, x) == \E i \in 1..Len(c) : c[i] = x
HasRec(c, r) == \E i \in 1..Len(c) : c[i].rec = r

(* The positions in c where a complete line of record r with level l       *)
(* starts: its body, followed at once by its newline.                      *)
LineStarts(c, r, l) ==
  {i \in 1..(Len(c) - 1) : c[i] = BodyCell(r, l) /\ c[i + 1] = NlCell(r, l)}

(* C1: for every filter S stored as minimum level and every record level   *)
(* R, Log::enabled(R) answers true iff a level is set (S is not Off, and   *)
(* some filter has been stored) and R is at least as severe as S; it       *)
(* answers false while no level has ever been set and after                *)
(* set_level(Off).                                                         *)
C1_EnabledIffSevereEnough ==
  \A t \in Threads :
    call[t].op = "enabled" =>
      ((ret[t] = "True") <=> SevereEnough(sawSet[t], call[t].lvl))

(* A query answered true (Warn under Debug) and one answered false while   *)
(* no level had been set.                                                  *)
C1_Witness ==
  \E t, u \in Threads :
    /\ call[t].op = "enabled" /\ ret[t] = "True"
    /\ sawSet[t] = {Debug} /\ call[t].lvl = Warn
    /\ call[u].op = "enabled" /\ ret[u] = "False" /\ sawSet[u] = {}

(* C2: installation happens at most once under any interleaving of the     *)
(* setters: log::set_logger is called at most once, installed is true from *)
(* the first attempt on, and no setter fails with the set_logger error     *)
(* while the registered logger is LOGSY itself (installed by another       *)
(* thread).                                                                *)
C2_InstallAtMostOnce ==
  /\ setLoggerCalls <= 1
  /\ setLoggerCalls >= 1 => installed
  /\ \A t \in Threads : ret[t] = "ErrSetLogger" => logger # "logsy"

(* C3: on a working disk, threads emitting enabled records concurrently to *)
(* the file sink leave only whole lines: a body is followed at once by its *)
(* own newline (or its writer is about to write the newline), every        *)
(* newline follows its own body, no record is in the file twice, the lines *)
(* of one thread are in the order it emitted them, and every record whose  *)
(* emit has returned has its line: N*M lines when all have returned.       *)
C3_WholeLines ==
  diskOk =>
    LET c == files["a.log"]
        Mine(i) == c[i].rec # <<0, 0>>
    IN /\ \A i \in 1..Len(c) :
            Mine(i) /\ ~c[i].nl =>
              \/ i < Len(c) /\ c[i + 1] = NlCell(c[i].rec, c[i].lvl)
              \/ \E t \in Threads : pc[t] = "log_nl" /\ call[t].rec = c[i].rec
       /\ \A i \in 1..Len(c) :
            Mine(i) /\ c[i].nl => i > 1 /\ c[i - 1] = BodyCell(c[i].rec, c[i].lvl)
       /\ \A i, j \in 1..Len(c) :
            Mine(i) /\ Mine(j) /\ i < j /\ c[i].rec = c[j].rec => j = i + 1
       /\ \A i, j \in 1..Len(c) :
            Mine(i) /\ Mine(j) /\ i < j /\ c[i].rec[1] = c[j].rec[1]
              => c[i].rec[2] <= c[j].rec[2]
       /\ \A t \in Threads : \A k \in 1..seq[t] :
            (k < seq[t] \/ pc[t] = "idle") =>
              \E l \in EmitLevels : Cardinality(LineStarts(c, <<t, k>>, l)) = 1

(* All threads have emitted MaxEmits records each and returned, and the    *)
(* lines of two threads alternate in the file.                             *)
C3_Witness ==
  /\ diskOk
  /\ \A t \in Threads : seq[t] = MaxEmits /\ pc[t] = "idle"
  /\ \E i \in 1..(Len(files["a.log"]) - 4) :
       /\ files["a.log"][i].rec = <<1, 1>>
       /\ files["a.log"][i + 2].rec = <<2, 1>>
       /\ files["a.log"][i + 4].rec = <<1, 2>>

(* C4: once try_to_file has replaced the handle on path A by a handle on   *)
(* another path B, the content of A stays what it was at that moment, also *)
(* with other threads emitting; a record written after that lands in the   *)
(* file of the installed handle and in no other file.                      *)
C4_OldFileFrozen ==
  /\ \A p \in Paths : frozen[p] # NoSnap => files[p] = frozen[p]
  /\ \A t \in Threads :
       pc[t] = "log_nl" =>
         /\ frozen[to_file.path] = NoSnap
         /\ HasCell(files[to_file.path], BodyCell(call[t].rec, call[t].lvl))
         /\ \A p \in Paths \ {to_file.path} : ~HasRec(files[p], call[t].rec)

(* The sink went from "a.log", which had a line of this run, to "b.log",   *)
(* and a record emitted after the switch has its line in "b.log".          *)
C4_Witness ==
  /\ to_file.path = "b.log"
  /\ frozen["a.log"] # NoSnap
  /\ \E t \in Threads : HasRec(frozen["a.log"], <<t, 1>>)
  /\ \E t \in Threads :
       /\ call[t].op = "log" /\ ret[t] = "Logged"
       /\ LineStarts(files["b.log"], call[t].rec, call[t].lvl) # {}

(* C5 in a state: on a working disk, a record is let through exactly when  *)
(* the level last set enables it; a record let through has, once log has   *)
(* returned, exactly one line in the file, with its level and message; a   *)
(* record not let through has no byte in the file.                         *)
C5_State ==
  diskOk =>
    \A t \in Threads :
      (call[t].op = "log" /\ pc[t] = "idle") =>
        /\ (ret[t] = "Logged") <=> SevereEnough(sawSet[t], call[t].lvl)
        /\ ret[t] = "Logged" =>
             Cardinality(LineStarts(files[to_file.path], call[t].rec, call[t].lvl)) = 1
        /\ ret[t] # "Logged" =>
             \A p \in Paths : ~HasRec(files[p], call[t].rec)

(* C5 in a step: a line of this run that is in the file stays in it,       *)
(* whatever is emitted or set later.                                       *)
C5_LinesKept ==
  \A t \in Threads : \A k \in 1..seq[t] : \A l \in CallLevels :
    LineStarts(files["a.log"], <<t, k>>, l) # {}
      => LineStarts(files'["a.log"], <<t, k>>, l) # {}

(* C5: with a file sink configured, for any sequence of set_level and emit *)
(* calls, each record the current level enables appends exactly one line   *)
(* with its level name and message, each record it does not enable leaves  *)
(* the file unchanged, and lines written earlier remain.                   *)
C5_FilteredAppend == []C5_State /\ [][C5_LinesKept]_vars

(* The scenario of the test: an Info line, a Debug record dropped under    *)
(* Info, and after set_level(Debug) a Debug line after the Info line.      *)
C5_Witness ==
  /\ diskOk
  /\ level = Debug
  /\ \E t, u \in Threads :
       /\ t # u
       /\ call[u].op = "log" /\ ret[u] = "Logged" /\ call[u].lvl = Debug
       /\ \E i \in LineStarts(files["a.log"], <<t, 1>>, Info) :
          \E j \in LineStarts(files["a.log"], call[u].rec, Debug) : i < j

(* C6: whenever no try_set_level call is between its two statements, the   *)
(* max-level hint of the log crate equals the stored level.                *)
C6_HintMatchesLevel ==
  (\A t \in Threads : pc[t] \notin {"lvl_hint", "lvl_store"}) => ToLevel(maxLevel) = level

(* C7: the file of a handle installed with append = false holds nothing of *)
(* what the path held when it was opened; with append = true all of that   *)
(* is still there.                                                         *)
C7_TruncateOrKeep ==
  to_file # NoHandle =>
    IF to_file.append
      THEN \A x \in to_file.stale : HasCell(files[to_file.path], x)
      ELSE \A x \in to_file.stale : ~HasCell(files[to_file.path], x)

(* C8: try_to_file does not fail because the parent directory is missing.  *)
C8_MissingParentCreated ==
  \A t \in Threads : call[t].op = "to_file" => ret[t] # "ErrOpen"

(* C9: a record that the level enables is never dropped silently when the  *)
(* mutex is poisoned: log does not return from the enabled check.          *)
C9_PoisonReported ==
  \A t \in Threads :
    (call[t].op = "log" /\ ret[t] = "SkippedLock") => ~SevereEnough(sawSet[t], call[t].lvl)

(* C10: a failed write to a sink never panics in log and never poisons the *)
(* mutex.                                                                  *)
C10_WriteFailureSwallowed ==
  /\ ~poisoned
  /\ \A t \in Threads : call[t].op = "log" => ret[t] # "Panic"


(* The setters that switch a sink on, and all configuration setters.       *)
SinkSetters == {"to_console", "to_file"}
Setters == SinkSetters \cup {"set_level"}

(* C11: after a successful call of any configuration setter (to_console,   *)
(* to_file or set_level) LOGSY is the registered logger and installed is   *)
(* true.                                                                   *)
C11_AnySetterInstalls ==
  \A t \in Threads :
    (call[t].op \in Setters /\ ret[t] = "Ok") => (installed /\ logger = "logsy")

(* C12: while the registry holds another logger, no try_to_console and no  *)
(* try_to_file call returns Ok, the first as little as the later ones.     *)
C12_OtherLoggerAlwaysErr ==
  logger = "other" =>
    \A t \in Threads : call[t].op \in SinkSetters => ret[t] # "Ok"

(* C13: whenever a try_to_console or try_to_file call has returned Ok, a   *)
(* minimum level has been stored (the default or the RUST_LOG override).   *)
C13_LevelSetOnReturn ==
  \A t \in Threads :
    (call[t].op \in SinkSetters /\ ret[t] = "Ok") => lastSet # {}

(* The pcs at which a thread is about to acquire the mutex of LOGSY, and   *)
(* those at which it owns the guard.                                       *)
Acquiring == {"ei_read", "ei_set", "lvl_store", "con_set", "file_set", "log_enabled",
              "log_lock"}
Holding == {"log_console", "log_body", "log_nl"}

(* C14: no operation blocks for ever.  The mutex is held only by a thread  *)
(* inside the write section of log, never by a thread that is about to     *)
(* acquire it; whenever a call is in progress some thread can take a step  *)
(* (no deadlock); and when no thread stops in the middle of a call, every  *)
(* call of try_to_console, try_to_file, try_set_level and log returns.     *)
C14_NoDeadlock ==
  /\ \A t \in Threads : lockHolder = t => (pc[t] \in Holding /\ pc[t] \notin Acquiring)
  /\ (lockHolder # NoThread) => pc[lockHolder] \in Holding
  /\ (\E t \in Threads : pc[t] # "idle") => ENABLED (\E t \in Threads : Step(t))

AllReturned == \A t \in Threads : pc[t] = "idle" /\ ret[t] # "running"

IsLine(e) == e.kind = "line"
IsBody(c) == c.rec # <<0, 0>> /\ ~c.nl
RecsOf(s) == [i \in 1..Len(s) |-> s[i].rec]
ConsoleRecs == RecsOf(SelectSeq(console, IsLine))
FileRecs == RecsOf(SelectSeq(files["a.log"], IsBody))

IsPrefix(s, u) == Len(s) <= Len(u) /\ SubSeq(u, 1, Len(s)) = s

(* C15: with console and file both on and no reconfiguration, the records  *)
(* of concurrent emits are in the same order on both sinks: the sequence   *)
(* of records in the file is a prefix of the sequence on the console, and  *)
(* on a working disk it is the same sequence, but for the one record whose *)
(* emit owns the guard and has written the console line and not yet the    *)
(* file line.                                                              *)
C15_SameOrder ==
  /\ IsPrefix(FileRecs, ConsoleRecs)
  /\ diskOk =>
       \/ FileRecs = ConsoleRecs
       \/ \E t \in Threads : /\ pc[t] = "log_body"
                             /\ ConsoleRecs = Append(FileRecs, call[t].rec)

(* Every thread has emitted MaxEmits records and returned, both sinks hold *)
(* all of them, and the sequence starts with records of two threads.       *)
C15_Witness ==
  /\ \A t \in Threads : pc[t] = "idle" /\ seq[t] = MaxEmits
  /\ Len(ConsoleRecs) = NThreads * MaxEmits
  /\ FileRecs = ConsoleRecs
  /\ ConsoleRecs[1][1] # ConsoleRecs[2][1]

(* C16: once a set_level(L) call has returned Ok and L is the level in     *)
(* force, only the store of another try_set_level call changes the level:  *)
(* no step of try_to_console or try_to_file does, in whatever order the    *)
(* calls are made.                                                         *)
C16_SinkSettersKeepLevel ==
  [][\A t \in Threads :
       (call[t].op = "set_level" /\ ret[t] = "Ok" /\ level = ToLevel(call[t].filter))
         => \/ level' = level
            \/ \E u \in Threads : /\ call[u].op = "set_level"
                                  /\ pc[u] = "lvl_store"
                                  /\ pc'[u] = "idle"]_vars

(* C17: a record is written only if the minimum level in force when log's  *)
(* enabled check ran enabled its level: every thread that is past the      *)
(* check, and every record that has a cell in the file, passed the check   *)
(* against the filter stored last at that moment.  (The level in force at  *)
(* the moment of the write may differ: see C17_EnabledWhenWritten.)        *)
C17_EnabledWhenChecked ==
  \A t \in Threads :
    call[t].op = "log" =>
      /\ pc[t] \in {"log_lock"} \cup Holding => SevereEnough(sawSet[t], call[t].lvl)
      /\ HasRec(files["a.log"], call[t].rec) => SevereEnough(sawSet[t], call[t].lvl)

(* C17 as stated: a thread that owns the guard for writing a record finds  *)
(* the record's level enabled by the minimum level stored at that moment.  *)
C17_EnabledWhenWritten ==
  \A t \in Threads : pc[t] \in Holding => SevereEnough(lastSet, call[t].lvl)

(* A thread owns the guard and has written the body of a Debug record,     *)
(* which the level in force at its check enabled and the level in force    *)
(* now, stored by a set_level in between, does not.                        *)
C17_Witness ==
  \E t \in Threads :
    /\ pc[t] = "log_nl"
    /\ HasCell(files["a.log"], BodyCell(call[t].rec, call[t].lvl))
    /\ SevereEnough(sawSet[t], call[t].lvl)
    /\ ~SevereEnough(lastSet, call[t].lvl)

(* A step of a try_to_file call whose open is going to fail, the parent    *)
(* directory of its path being missing.                                    *)
FailingToFileStep(t) ==
  /\ call[t].op = "to_file"
  /\ Parent(call[t].path) \notin dirs
  /\ pc[t] # "idle"
  /\ pc'[t] # pc[t]

(* The pcs inside the block `if !installed { .. }` of ensure_installed.    *)
Installing == {"ei_set", "ei_reg", "ei_env", "lvl_hint", "lvl_store"}

(* C18: a try_to_file call that returns the error of a failed open never   *)
(* changes the file handle, the console flag or a file, and the path that  *)
(* failed never becomes the sink, so emits keep going to the handle        *)
(* installed before; it leaves installed and the level as they are too,    *)
(* except in the steps of the installation it performs itself when it      *)
(* found installed unset.                                                  *)
C18_SinksKept ==
  \A t \in Threads :
    ret[t] = "ErrOpen" =>
      /\ call[t].op = "to_file"
      /\ to_file.path # call[t].path
      /\ files[call[t].path] = <<>>
      /\ \A u \in Threads : pc[u] = "log_nl" => HasRec(files[to_file.path], call[u].rec)

C18_FailedOpenKeepsSinks ==
  /\ []C18_SinksKept
  /\ [][\A t \in Threads :
          FailingToFileStep(t) =>
            /\ UNCHANGED <<to_stderr, to_file, files>>
            /\ pc[t] \notin Installing => UNCHANGED <<installed, level>>]_vars

(* C18 as stated: no step of a try_to_file call whose open is going to     *)
(* fail changes installed, the console flag, the file handle or the level. *)
C18_FailedCallChangesNothing ==
  [][\A t \in Threads :
       FailingToFileStep(t) => UNCHANGED <<installed, to_stderr, to_file, level>>]_vars

(* try_to_file on a path with a missing directory has returned the error   *)
(* of open; the sink is the handle on "a.log" set by another call, and a   *)
(* record emitted in this run has its line in "a.log".                     *)
C18_Witness ==
  /\ \E t \in Threads : ret[t] = "ErrOpen" /\ call[t].path = "d/c.log"
  /\ installed
  /\ to_file.path = "a.log"
  /\ \E u \in Threads : ret[u] = "Logged" /\ LineStarts(files["a.log"], call[u].rec, Info) # {}

(* C19: sinks are only ever switched on: no step of any call of            *)
(* try_to_console, try_to_file, try_set_level or log turns to_stderr from  *)
(* true to false or leaves to_file without a handle once it holds one.     *)
C19_SinksStayOn ==
  [][/\ to_stderr => to_stderr'
     /\ to_file # NoHandle => to_file' # NoHandle]_vars

(* Both sinks are on and a record emitted after that has its line on the   *)
(* console and in the file.                                                *)
C19_Witness ==
  /\ to_stderr
  /\ to_file # NoHandle
  /\ \E t \in Threads : /\ ret[t] = "Logged"
                        /\ HasRec(console, call[t].rec)
                        /\ HasRec(files[to_file.path], call[t].rec)

=============================================================================
